---- MODULE Spec2Model ----
(***************************************************************************)
(* MenuSee backend (convex/mutations.ts, convex/actions.ts,                *)
(* convex/queries.ts): one menu scan, its dishes, the processing pipeline  *)
(* and the per-dish image generation workers.                              *)
(*                                                                         *)
(* Every Convex query or mutation is one transaction and is one atomic     *)
(* step here.  An action (processScanPipeline, generateDishImage) is a     *)
(* sequence of such transactions; other operations interleave between      *)
(* them.  A step that touches no shared state (a provider call, a          *)
(* scheduler.runAfter) is folded into the transaction next to it.          *)
(* Costs are integer hundredths of a dollar.                               *)
(***************************************************************************)
EXTENDS Integers, Sequences, FiniteSets, Bags, TLC

\* ---------------------------------------------------------------- bounds
\* largest number of items the vision provider returns for the menu
MaxDishes == 2
\* the configuration surface: AUTO_IMAGE_LIMIT ranges over 0..MaxAutoLimit
MaxAutoLimit == 1
\* MAX_IMAGES_PER_SCAN of the modelled deployment
MaxCeiling == 2

\* ------------------------------------------------------------- constants
VISION_PARSE == 1
IMAGE_OPENAI == 4
IMAGE_NANO_BANANA == 2
DEFAULT_IMAGE_PROVIDER == "openai"

ImageProviders == {"openai", "nano_banana"}

Min(a, b) == IF a < b THEN a ELSE b

VARIABLES
    CONFIG,     \* AUTO_IMAGE_LIMIT and MAX_IMAGES_PER_SCAN of the deployment
    user,       \* the deviceUsers document of the scan's device
    scan,       \* the menuScans document
    dishes,     \* the dishes documents of the scan, in insertion order
    client,     \* position of the capture screen's handleSubmit
    pipe,       \* the processScanPipeline invocation
    jobs,       \* bag of generateDishImage invocations, scheduled or running
    billed,     \* history: per dish, worker executions that added image cost
    ret,        \* the value returned by the last client-facing operation
    storage     \* per dish, the generated image blobs held by ctx.storage

vars == <<CONFIG, user, scan, dishes, client, pipe, jobs, billed, ret, storage>>

DishIds == 1..MaxDishes

\* ------------------------------------------------------------- documents
Msg(text, a, b) == [text |-> text, a |-> a, b |-> b]
NoMsg == Msg("", 0, 0)

\* createMenuScan's insert
NewScan ==
    [exists |-> TRUE, imageUrl |-> FALSE, status |-> "pending",
     statusMessage |-> NoMsg, errorMessage |-> FALSE,
     totalDishes |-> 0, dishesExtracted |-> 0,
     imagesGenerated |-> 0, imagesRequested |-> 0,
     estimatedCostUsd |-> VISION_PARSE, actualCostUsd |-> 0]

\* what is left of the scan document after ctx.db.delete
DeletedScan ==
    [exists |-> FALSE, imageUrl |-> FALSE, status |-> "deleted",
     statusMessage |-> NoMsg, errorMessage |-> FALSE,
     totalDishes |-> 0, dishesExtracted |-> 0,
     imagesGenerated |-> 0, imagesRequested |-> 0,
     estimatedCostUsd |-> 0, actualCostUsd |-> 0]

\* what is left of a dish document after ctx.db.delete
DeletedDish ==
    [exists |-> FALSE, displayOrder |-> 0, imageStatus |-> "deleted",
     imageError |-> FALSE, imageStorageId |-> FALSE]

ProviderCost(provider) ==
    IF provider = "openai" THEN IMAGE_OPENAI ELSE IMAGE_NANO_BANANA

\* ------------------------------------------------------------ mutations
\* updateScanStatus: patch status, and the messages that were passed
updateScanStatus(s, status, args) ==
    [s EXCEPT !.status = status,
              !.statusMessage = IF "statusMessage" \in DOMAIN args
                                THEN args.statusMessage ELSE @,
              !.errorMessage = IF "errorMessage" \in DOMAIN args
                               THEN args.errorMessage ELSE @]

\* updateScanProgress writing the passed cost over the stored one
updateScanProgress_OverwritesCost(s, args) ==
    [s EXCEPT !.totalDishes = IF "totalDishes" \in DOMAIN args
                              THEN args.totalDishes ELSE @,
              !.dishesExtracted = IF "dishesExtracted" \in DOMAIN args
                                  THEN args.dishesExtracted ELSE @,
              !.imagesGenerated = IF "imagesGenerated" \in DOMAIN args
                                  THEN args.imagesGenerated ELSE @,
              !.imagesRequested = IF "imagesRequested" \in DOMAIN args
                                  THEN args.imagesRequested ELSE @,
              !.actualCostUsd = IF "addActualCost" \in DOMAIN args
                                THEN args.addActualCost ELSE @,
              !.estimatedCostUsd = IF "addEstimatedCost" \in DOMAIN args
                                   THEN @ + args.addEstimatedCost ELSE @]

\* updateScanProgress: counters that were passed are overwritten with the
\* passed value, costs are added to the value read in this transaction
updateScanProgress(s, args) ==
    [s EXCEPT !.totalDishes = IF "totalDishes" \in DOMAIN args
                              THEN args.totalDishes ELSE @,
              !.dishesExtracted = IF "dishesExtracted" \in DOMAIN args
                                  THEN args.dishesExtracted ELSE @,
              !.imagesGenerated = IF "imagesGenerated" \in DOMAIN args
                                  THEN args.imagesGenerated ELSE @,
              !.imagesRequested = IF "imagesRequested" \in DOMAIN args
                                  THEN args.imagesRequested ELSE @,
              !.actualCostUsd = IF "addActualCost" \in DOMAIN args
                                THEN @ + args.addActualCost ELSE @,
              !.estimatedCostUsd = IF "addEstimatedCost" \in DOMAIN args
                                   THEN @ + args.addEstimatedCost ELSE @]

\* createDish: insert a dish document
createDish(ds, displayOrder, imageStatus) ==
    Append(ds, [exists |-> TRUE, displayOrder |-> displayOrder,
                imageStatus |-> imageStatus, imageError |-> FALSE,
                imageStorageId |-> FALSE])

\* a call that passes none of the optional arguments
NoArgs == << >>

\* updateDishImage: patch the dish's imageStatus, and imageError and
\* imageStorageId when they were passed
updateDishImage(ds, dishId, imageStatus, args) ==
    [ds EXCEPT ![dishId].imageStatus = imageStatus,
               ![dishId].imageError = IF "imageError" \in DOMAIN args
                                      THEN args.imageError ELSE @,
               ![dishId].imageStorageId = IF "imageStorageId" \in DOMAIN args
                                          THEN args.imageStorageId ELSE @]

\* the dish document with this id exists
DishExists(dishId) == dishId \in DOMAIN dishes /\ dishes[dishId].exists

\* ids of the scan's dishes, in index order
ScanDishes == {d \in DOMAIN dishes : dishes[d].exists}

CountStatus(ds, st) ==
    Cardinality({d \in DOMAIN ds : ds[d].exists /\ ds[d].imageStatus = st})

\* a freshly scheduled generateDishImage invocation
NewJob(dishId, provider) ==
    [dishId |-> dishId, provider |-> provider, pc |-> "scheduled",
     ok |-> TRUE, newImagesGenerated |-> 0, imagesRequested |-> 0]

Schedule(js, dishIds, provider) ==
    js (+) [j \in {NewJob(d, provider) : d \in dishIds} |-> 1]

Ret(op, result, queued) == [op |-> op, result |-> result, queued |-> queued]

IdlePipe ==
    [pc |-> "idle", imageProvider |-> DEFAULT_IMAGE_PROVIDER, totalDishes |-> 0,
     displayOrder |-> 0, dishIds |-> {}]

\* ------------------------------------------------------------------ Init
Init ==
    /\ CONFIG \in {[AUTO_IMAGE_LIMIT |-> a, MAX_IMAGES_PER_SCAN |-> MaxCeiling] :
                      a \in 0..Min(MaxAutoLimit, MaxCeiling)}
    /\ user = [scanCount |-> 1]
    /\ scan = NewScan
    /\ dishes = << >>
    /\ client = "created"
    /\ pipe = IdlePipe
    /\ jobs = EmptyBag
    /\ billed = [d \in DishIds |-> 0]
    /\ ret = Ret("createMenuScan", "ok", 0)
    /\ storage = [d \in DishIds |-> 0]

\* -------------------------------------------------- capture screen calls
\* storeMenuImage: the upload's reference is stored, status -> uploading
storeMenuImage ==
    /\ client = "created"
    /\ IF scan.exists
       THEN \E url \in BOOLEAN :
              /\ scan' = [scan EXCEPT !.imageUrl = url, !.status = "uploading"]
              /\ client' = "stored"
              /\ ret' = Ret("storeMenuImage", "ok", 0)
       ELSE /\ scan' = scan
            /\ client' = "aborted"
            /\ ret' = Ret("storeMenuImage", "throws", 0)
    /\ UNCHANGED <<CONFIG, user, dishes, pipe, jobs, billed, storage>>

\* startProcessingScan: status -> processing, the pipeline is scheduled
startProcessingScan ==
    /\ client = "stored"
    /\ IF scan.exists
       THEN \E provider \in ImageProviders :
              /\ scan' = updateScanStatus(scan, "processing",
                             [statusMessage |-> Msg("Analyzing menu image...", 0, 0)])
              /\ pipe' = [IdlePipe EXCEPT !.pc = "scheduled",
                                           !.imageProvider = provider]
              /\ client' = "started"
              /\ ret' = Ret("startProcessingScan", "ok", 0)
       ELSE /\ UNCHANGED <<scan, pipe>>
            /\ client' = "aborted"
            /\ ret' = Ret("startProcessingScan", "throws", 0)
    /\ UNCHANGED <<CONFIG, user, dishes, jobs, billed, storage>>

\* ------------------------------------------------- processScanPipeline
\* getScan; a missing scan or image URL throws
PipelineGetScan ==
    /\ pipe.pc = "scheduled"
    /\ pipe' = [pipe EXCEPT !.pc = IF scan.exists /\ scan.imageUrl
                                   THEN "setProcessing" ELSE "catch"]
    /\ UNCHANGED <<CONFIG, user, scan, dishes, client, jobs, billed, ret, storage>>

\* updateScanStatus(processing)
PipelineSetProcessing ==
    /\ pipe.pc = "setProcessing"
    /\ IF scan.exists
       THEN /\ scan' = updateScanStatus(scan, "processing",
                  [statusMessage |-> Msg("Extracting menu items with AI...", 0, 0)])
            /\ pipe' = [pipe EXCEPT !.pc = "callVision"]
       ELSE /\ scan' = scan
            /\ pipe' = [pipe EXCEPT !.pc = "catch"]
    /\ UNCHANGED <<CONFIG, user, dishes, client, jobs, billed, ret, storage>>

\* callVisionAPI throws, or returns a menu of n items and the status is
\* set to extracting
PipelineCallVision ==
    /\ pipe.pc = "callVision"
    /\ \/ /\ pipe' = [pipe EXCEPT !.pc = "catch"]
          /\ scan' = scan
       \/ \E n \in 0..MaxDishes :
            IF scan.exists
            THEN /\ scan' = updateScanStatus(scan, "extracting",
                       [statusMessage |-> Msg("Creating dish records...", 0, 0)])
                 /\ pipe' = [pipe EXCEPT !.pc = "updateTotals", !.totalDishes = n]
            ELSE /\ scan' = scan
                 /\ pipe' = [pipe EXCEPT !.pc = "catch"]
    /\ UNCHANGED <<CONFIG, user, dishes, client, jobs, billed, ret, storage>>

\* updateScanProgress(totalDishes, addActualCost: VISION_PARSE)
PipelineUpdateTotals ==
    /\ pipe.pc = "updateTotals"
    /\ IF scan.exists
       THEN /\ scan' = updateScanProgress(scan,
                  [totalDishes |-> pipe.totalDishes, addActualCost |-> VISION_PARSE])
            /\ pipe' = [pipe EXCEPT !.pc = "createDishes"]
       ELSE /\ scan' = scan
            /\ pipe' = [pipe EXCEPT !.pc = "catch"]
    /\ UNCHANGED <<CONFIG, user, dishes, client, jobs, billed, ret, storage>>

\* PipelineCreateDish auto-queueing one dish more than AUTO_IMAGE_LIMIT
PipelineCreateDish_OffByOne ==
    /\ pipe.pc = "createDishes"
    /\ IF pipe.displayOrder < pipe.totalDishes
       THEN LET shouldAutoGenerate == pipe.displayOrder <= CONFIG.AUTO_IMAGE_LIMIT
                dishId == Len(dishes) + 1
            IN \/ /\ dishes' = createDish(dishes, pipe.displayOrder,
                                   IF shouldAutoGenerate THEN "queued" ELSE "pending")
                  /\ pipe' = [pipe EXCEPT
                                !.displayOrder = @ + 1,
                                !.dishIds = IF shouldAutoGenerate
                                            THEN @ \cup {dishId} ELSE @]
               \* the item does not pass createDish's argument validators
               \/ /\ dishes' = dishes
                  /\ pipe' = [pipe EXCEPT !.pc = "catch"]
       ELSE /\ dishes' = dishes
            /\ pipe' = [pipe EXCEPT !.pc = "updateCounts"]
    /\ UNCHANGED <<CONFIG, user, scan, client, jobs, billed, ret, storage>>

\* one iteration of the dish loops: createDish with the next displayOrder,
\* queued below AUTO_IMAGE_LIMIT and pending from there on; the items are
\* the provider's JSON as parsed, and createDish throws on an item that its
\* validators reject
PipelineCreateDish ==
    /\ pipe.pc = "createDishes"
    /\ IF pipe.displayOrder < pipe.totalDishes
       THEN LET shouldAutoGenerate == pipe.displayOrder < CONFIG.AUTO_IMAGE_LIMIT
                dishId == Len(dishes) + 1
            IN \/ /\ dishes' = createDish(dishes, pipe.displayOrder,
                                   IF shouldAutoGenerate THEN "queued" ELSE "pending")
                  /\ pipe' = [pipe EXCEPT
                                !.displayOrder = @ + 1,
                                !.dishIds = IF shouldAutoGenerate
                                            THEN @ \cup {dishId} ELSE @]
               \* the item does not pass createDish's argument validators
               \/ /\ dishes' = dishes
                  /\ pipe' = [pipe EXCEPT !.pc = "catch"]
       ELSE /\ dishes' = dishes
            /\ pipe' = [pipe EXCEPT !.pc = "updateCounts"]
    /\ UNCHANGED <<CONFIG, user, scan, client, jobs, billed, ret, storage>>

\* PipelineUpdateCounts estimating every image at the openai price
PipelineUpdateCounts_AlwaysOpenAI ==
    /\ pipe.pc = "updateCounts"
    /\ IF scan.exists
       THEN LET imagesRequested == Min(pipe.totalDishes, CONFIG.AUTO_IMAGE_LIMIT)
                estimatedImageCost == imagesRequested * IMAGE_OPENAI
                args == IF estimatedImageCost # 0
                        THEN [dishesExtracted |-> pipe.totalDishes,
                              imagesRequested |-> imagesRequested,
                              addEstimatedCost |-> estimatedImageCost]
                        ELSE [dishesExtracted |-> pipe.totalDishes,
                              imagesRequested |-> imagesRequested]
            IN /\ scan' = updateScanProgress(scan, args)
               /\ pipe' = [pipe EXCEPT !.pc = "setGenerating"]
       ELSE /\ scan' = scan
            /\ pipe' = [pipe EXCEPT !.pc = "catch"]
    /\ UNCHANGED <<CONFIG, user, dishes, client, jobs, billed, ret, storage>>

\* updateScanProgress(dishesExtracted, imagesRequested, addEstimatedCost)
PipelineUpdateCounts ==
    /\ pipe.pc = "updateCounts"
    /\ IF scan.exists
       THEN LET imagesRequested == Min(pipe.totalDishes, CONFIG.AUTO_IMAGE_LIMIT)
                estimatedImageCost ==
                    imagesRequested * ProviderCost(pipe.imageProvider)
                \* addEstimatedCost is skipped when it is 0 (falsy)
                args == IF estimatedImageCost # 0
                        THEN [dishesExtracted |-> pipe.totalDishes,
                              imagesRequested |-> imagesRequested,
                              addEstimatedCost |-> estimatedImageCost]
                        ELSE [dishesExtracted |-> pipe.totalDishes,
                              imagesRequested |-> imagesRequested]
            IN /\ scan' = updateScanProgress(scan, args)
               /\ pipe' = [pipe EXCEPT !.pc = "setGenerating"]
       ELSE /\ scan' = scan
            /\ pipe' = [pipe EXCEPT !.pc = "catch"]
    /\ UNCHANGED <<CONFIG, user, dishes, client, jobs, billed, ret, storage>>

\* PipelineSetGenerating reporting completion before any job has run
PipelineSetGenerating_SkipsGenerating ==
    /\ pipe.pc = "setGenerating"
    /\ IF scan.exists
       THEN /\ scan' = updateScanStatus(scan, "completed",
                  [statusMessage |-> Msg("Generating images for N dishes...",
                         Min(pipe.totalDishes, CONFIG.AUTO_IMAGE_LIMIT), 0)])
            /\ pipe' = [pipe EXCEPT !.pc = "schedule"]
       ELSE /\ scan' = scan
            /\ pipe' = [pipe EXCEPT !.pc = "catch"]
    /\ UNCHANGED <<CONFIG, user, dishes, client, jobs, billed, ret, storage>>

\* updateScanStatus(generating)
PipelineSetGenerating ==
    /\ pipe.pc = "setGenerating"
    /\ IF scan.exists
       THEN /\ scan' = updateScanStatus(scan, "generating",
                  [statusMessage |-> Msg("Generating images for N dishes...",
                         Min(pipe.totalDishes, CONFIG.AUTO_IMAGE_LIMIT), 0)])
            /\ pipe' = [pipe EXCEPT !.pc = "schedule"]
       ELSE /\ scan' = scan
            /\ pipe' = [pipe EXCEPT !.pc = "catch"]
    /\ UNCHANGED <<CONFIG, user, dishes, client, jobs, billed, ret, storage>>

\* PipelineSchedule leaving the scan in generating when nothing was queued
PipelineSchedule_NeverCompletes ==
    /\ pipe.pc = "schedule"
    /\ IF pipe.dishIds # {}
       THEN /\ jobs' = Schedule(jobs, pipe.dishIds, pipe.imageProvider)
            /\ scan' = scan
            /\ pipe' = [pipe EXCEPT !.pc = "done"]
       ELSE /\ jobs' = jobs
            /\ scan' = scan
            /\ pipe' = [pipe EXCEPT !.pc = IF scan.exists THEN "done" ELSE "catch"]
    /\ UNCHANGED <<CONFIG, user, dishes, client, billed, ret, storage>>

\* one job is scheduled per auto-queued dish; with none, the scan is
\* set to completed
PipelineSchedule ==
    /\ pipe.pc = "schedule"
    /\ IF pipe.dishIds # {}
       THEN /\ jobs' = Schedule(jobs, pipe.dishIds, pipe.imageProvider)
            /\ scan' = scan
            /\ pipe' = [pipe EXCEPT !.pc = "done"]
       ELSE /\ jobs' = jobs
            /\ IF scan.exists
               THEN /\ scan' = updateScanStatus(scan, "completed",
                          [statusMessage |-> Msg("Menu processed successfully!", 0, 0)])
                    /\ pipe' = [pipe EXCEPT !.pc = "done"]
               ELSE /\ scan' = scan
                    /\ pipe' = [pipe EXCEPT !.pc = "catch"]
    /\ UNCHANGED <<CONFIG, user, dishes, client, billed, ret, storage>>

\* PipelineCatch rolling back the dishes created before the error
PipelineCatch_RollsBack ==
    /\ pipe.pc = "catch"
    /\ scan' = IF scan.exists
               THEN updateScanStatus(scan, "failed", [errorMessage |-> TRUE])
               ELSE scan
    /\ dishes' = [d \in DOMAIN dishes |-> DeletedDish]
    /\ pipe' = [pipe EXCEPT !.pc = "done"]
    /\ UNCHANGED <<CONFIG, user, client, jobs, billed, ret, storage>>

\* the catch block: updateScanStatus(failed, errorMessage); on a deleted
\* scan the patch throws and the action ends
PipelineCatch ==
    /\ pipe.pc = "catch"
    /\ scan' = IF scan.exists
               THEN updateScanStatus(scan, "failed", [errorMessage |-> TRUE])
               ELSE scan
    /\ pipe' = [pipe EXCEPT !.pc = "done"]
    /\ UNCHANGED <<CONFIG, user, dishes, client, jobs, billed, ret, storage>>

\* --------------------------------------------------- generateDishImage
\* replace invocation j by its next position, or drop it when it ends
Advance(j, next) == (jobs (-) SetToBag({j})) (+) SetToBag({next})
Finish(j) == jobs (-) SetToBag({j})
Thrown(j) == [j EXCEPT !.pc = "catch", !.ok = FALSE,
                       !.newImagesGenerated = 0, !.imagesRequested = 0]

\* getDishesForScan and find; "Dish not found" throws; otherwise
\* updateDishImage(generating), whatever the dish's imageStatus is
WorkerStart(j) ==
    /\ j.pc = "scheduled"
    /\ IF DishExists(j.dishId)
       THEN /\ dishes' = updateDishImage(dishes, j.dishId, "generating", NoArgs)
            /\ jobs' = Advance(j, [j EXCEPT !.pc = "callImageAPI"])
       ELSE /\ dishes' = dishes
            /\ jobs' = Advance(j, Thrown(j))
    /\ UNCHANGED <<CONFIG, user, scan, client, pipe, billed, ret, storage>>

\* callImageAPI or fetch throws, or they succeed, storage.store keeps the
\* image blob and the dish is patched to completed with the blob's id; on
\* a deleted dish that patch throws, after the blob was stored
WorkerGenerate(j) ==
    /\ j.pc = "callImageAPI"
    /\ \/ /\ jobs' = Advance(j, Thrown(j))
          /\ dishes' = dishes
          /\ storage' = storage
       \/ /\ storage' = [storage EXCEPT ![j.dishId] = @ + 1]
          /\ IF DishExists(j.dishId)
             THEN /\ dishes' = updateDishImage(dishes, j.dishId, "completed",
                                             [imageStorageId |-> TRUE])
                  /\ jobs' = Advance(j, [j EXCEPT !.pc = "getScan"])
             ELSE /\ dishes' = dishes
                  /\ jobs' = Advance(j, Thrown(j))
    /\ UNCHANGED <<CONFIG, user, scan, client, pipe, billed, ret>>

\* the catch block's updateDishImage(failed); on a deleted dish the patch
\* throws and the action ends
WorkerCatch(j) ==
    /\ j.pc = "catch"
    /\ IF DishExists(j.dishId)
       THEN /\ dishes' = updateDishImage(dishes, j.dishId, "failed",
                                       [imageError |-> TRUE])
            /\ jobs' = Advance(j, [j EXCEPT !.pc = "getScan"])
       ELSE /\ dishes' = dishes
            /\ jobs' = Finish(j)
    /\ UNCHANGED <<CONFIG, user, scan, client, pipe, billed, ret, storage>>

\* getScan: the worker keeps imagesGenerated + 1 and imagesRequested as
\* read by this query
WorkerGetScan(j) ==
    /\ j.pc = "getScan"
    /\ jobs' = IF scan.exists
               THEN Advance(j, [j EXCEPT !.pc = "updateScanProgress",
                                  !.newImagesGenerated = scan.imagesGenerated + 1,
                                  !.imagesRequested = scan.imagesRequested])
               ELSE Finish(j)
    /\ UNCHANGED <<CONFIG, user, scan, dishes, client, pipe, billed, ret, storage>>

\* WorkerUpdateProgress adding the provider's cost after a failure as well
WorkerUpdateProgress_BillsFailure(j) ==
    /\ j.pc = "updateScanProgress"
    /\ IF scan.exists
       THEN /\ scan' = updateScanProgress(scan,
                  [imagesGenerated |-> j.newImagesGenerated,
                   addActualCost |-> ProviderCost(j.provider)])
            /\ billed' = IF j.ok /\ j.dishId \in DOMAIN billed
                         THEN [billed EXCEPT ![j.dishId] = @ + 1] ELSE billed
            /\ jobs' = IF j.newImagesGenerated >= j.imagesRequested
                       THEN Advance(j, [j EXCEPT !.pc = "updateScanStatus"])
                       ELSE Finish(j)
       ELSE /\ UNCHANGED <<scan, billed>>
            /\ jobs' = IF j.ok THEN Advance(j, Thrown(j)) ELSE Finish(j)
    /\ UNCHANGED <<CONFIG, user, dishes, client, pipe, ret, storage>>

\* updateScanProgress(imagesGenerated: newImagesGenerated) and, after a
\* successful generation, addActualCost
WorkerUpdateProgress(j) ==
    /\ j.pc = "updateScanProgress"
    /\ IF scan.exists
       THEN /\ scan' = updateScanProgress(scan,
                  IF j.ok
                  THEN [imagesGenerated |-> j.newImagesGenerated,
                        addActualCost |-> ProviderCost(j.provider)]
                  ELSE [imagesGenerated |-> j.newImagesGenerated])
            /\ billed' = IF j.ok /\ j.dishId \in DOMAIN billed
                         THEN [billed EXCEPT ![j.dishId] = @ + 1] ELSE billed
            /\ jobs' = IF j.newImagesGenerated >= j.imagesRequested
                       THEN Advance(j, [j EXCEPT !.pc = "updateScanStatus"])
                       ELSE Finish(j)
       ELSE /\ UNCHANGED <<scan, billed>>
            /\ jobs' = IF j.ok THEN Advance(j, Thrown(j)) ELSE Finish(j)
    /\ UNCHANGED <<CONFIG, user, dishes, client, pipe, ret, storage>>

\* WorkerSetCompleted where a failed generation marks the scan failed
WorkerSetCompleted_FailsScan(j) ==
    /\ j.pc = "updateScanStatus"
    /\ IF scan.exists
       THEN /\ scan' = updateScanStatus(scan,
                  IF j.ok THEN "completed" ELSE "failed",
                  [statusMessage |->
                      IF j.ok THEN Msg("All images generated!", 0, 0)
                      ELSE Msg("Processing complete (some images failed)", 0, 0)])
            /\ jobs' = Finish(j)
       ELSE /\ scan' = scan
            /\ jobs' = IF j.ok THEN Advance(j, Thrown(j)) ELSE Finish(j)
    /\ UNCHANGED <<CONFIG, user, dishes, client, pipe, billed, ret, storage>>

\* updateScanStatus(completed) when newImagesGenerated >= imagesRequested
WorkerSetCompleted(j) ==
    /\ j.pc = "updateScanStatus"
    /\ IF scan.exists
       THEN /\ scan' = updateScanStatus(scan, "completed",
                  [statusMessage |->
                      IF j.ok THEN Msg("All images generated!", 0, 0)
                      ELSE Msg("Processing complete (some images failed)", 0, 0)])
            /\ jobs' = Finish(j)
       ELSE /\ scan' = scan
            /\ jobs' = IF j.ok THEN Advance(j, Thrown(j)) ELSE Finish(j)
    /\ UNCHANGED <<CONFIG, user, dishes, client, pipe, billed, ret, storage>>

\* ------------------------------------------------------- the scan screen
\* The scan screen shows only the processing view with its Cancel (delete)
\* button while the status is pending, uploading, processing or extracting;
\* the detail controls are rendered, and so their operations requested,
\* once the one pipeline run has set generating or failed.  The rendering
\* may be stale by the time the request is served.
DetailShown == pipe.pc \in {"schedule", "done"}

\* ------------------------------------------------ queueRemainingImages
\* dishes.filter(pending or skipped), as ids in by_scanId index order
pendingDishes(ds) ==
    {d \in DOMAIN ds : ds[d].exists /\ ds[d].imageStatus \in {"pending", "skipped"}}

\* toQueue without the remaining-slots term
toQueue_IgnoresCeiling(s, ds) == Cardinality(pendingDishes(ds))

\* toQueue reading the ceiling as one more slot than there is
toQueue_OffByOne(s, ds) ==
    Min(Cardinality(pendingDishes(ds)),
        CONFIG.MAX_IMAGES_PER_SCAN + 1 - s.imagesRequested)

\* Math.min(pendingDishes.length, MAX_IMAGES_PER_SCAN - alreadyRequested)
toQueue(s, ds) ==
    Min(Cardinality(pendingDishes(ds)),
        CONFIG.MAX_IMAGES_PER_SCAN - s.imagesRequested)

\* FirstN taking the n last ids instead of the n first
FirstN_TakesLast(S, n) == {d \in S : Cardinality({e \in S : e > d}) < n}

\* pendingDishes[0 .. n-1]
FirstN(S, n) == {d \in S : Cardinality({e \in S : e < d}) < n}

\* generateRemainingImages leaving the scan's status as it is
generateRemainingImages_KeepsStatus ==
    /\ DetailShown
    /\ IF ~scan.exists
       THEN /\ UNCHANGED <<scan, dishes, jobs>>
            /\ ret' = Ret("generateRemainingImages", "throws", 0)
       ELSE IF toQueue(scan, dishes) = 0
       THEN /\ UNCHANGED <<scan, dishes, jobs>>
            /\ ret' = Ret("generateRemainingImages", "ok", 0)
       ELSE \E provider \in {DEFAULT_IMAGE_PROVIDER} :   \* the screen passes none
              LET dishIds == FirstN(pendingDishes(dishes), toQueue(scan, dishes))
                  queued == Cardinality(dishIds)
              IN /\ dishes' = [d \in DOMAIN dishes |->
                                  IF d \in dishIds
                                  THEN [dishes[d] EXCEPT !.imageStatus = "queued"]
                                  ELSE dishes[d]]
                 /\ scan' = [scan EXCEPT
                               !.imagesRequested = @ + queued,
                               !.estimatedCostUsd = @ + queued * IMAGE_OPENAI]
                 /\ jobs' = IF queued = 0 THEN jobs
                            ELSE Schedule(jobs, dishIds, provider)
                 /\ ret' = Ret("generateRemainingImages", "ok", queued)
    /\ UNCHANGED <<CONFIG, user, client, pipe, billed, storage>>

\* the mutation and, in generateRemainingImages, one scheduled job per
\* returned dish id
generateRemainingImages ==
    /\ DetailShown
    /\ IF ~scan.exists
       THEN /\ UNCHANGED <<scan, dishes, jobs>>
            /\ ret' = Ret("generateRemainingImages", "throws", 0)
       ELSE IF toQueue(scan, dishes) = 0
       THEN /\ UNCHANGED <<scan, dishes, jobs>>
            /\ ret' = Ret("generateRemainingImages", "ok", 0)
       ELSE \E provider \in {DEFAULT_IMAGE_PROVIDER} :   \* the screen passes none
              LET dishIds == FirstN(pendingDishes(dishes), toQueue(scan, dishes))
                  queued == Cardinality(dishIds)
              IN /\ dishes' = [d \in DOMAIN dishes |->
                                  IF d \in dishIds
                                  THEN [dishes[d] EXCEPT !.imageStatus = "queued"]
                                  ELSE dishes[d]]
                 /\ scan' = [scan EXCEPT
                               !.imagesRequested = @ + queued,
                               !.estimatedCostUsd = @ + queued * IMAGE_OPENAI,
                               !.status = "generating"]
                 /\ jobs' = IF queued = 0 THEN jobs
                            ELSE Schedule(jobs, dishIds, provider)
                 /\ ret' = Ret("generateRemainingImages", "ok", queued)
    /\ UNCHANGED <<CONFIG, user, client, pipe, billed, storage>>

\* ------------------------------------------------ queueSingleDishImage
\* generateSingleDishImage whose guard forgets the generating status
generateSingleDishImage_RequeuesGenerating(dishId) ==
    /\ DetailShown
    /\ IF ~DishExists(dishId)
       THEN /\ UNCHANGED <<scan, dishes, jobs>>
            /\ ret' = Ret("generateSingleDishImage", "throws", 0)
       ELSE IF dishes[dishId].imageStatus \in {"completed", "queued"}
       THEN /\ UNCHANGED <<scan, dishes, jobs>>
            \* "Image already generated or in progress" for all three; the
            \* status that was read is kept to tell them apart
            /\ ret' = Ret("generateSingleDishImage", dishes[dishId].imageStatus, 0)
       ELSE IF ~scan.exists
       THEN /\ UNCHANGED <<scan, dishes, jobs>>
            /\ ret' = Ret("generateSingleDishImage", "throws", 0)
       ELSE IF scan.imagesRequested >= CONFIG.MAX_IMAGES_PER_SCAN
       THEN /\ UNCHANGED <<scan, dishes, jobs>>
            /\ ret' = Ret("generateSingleDishImage", "max reached", 0)
       ELSE \E provider \in {DEFAULT_IMAGE_PROVIDER} :
              /\ dishes' = [dishes EXCEPT ![dishId].imageStatus = "queued"]
              /\ scan' = [scan EXCEPT
                            !.imagesRequested = @ + 1,
                            !.estimatedCostUsd = @ + IMAGE_OPENAI,
                            !.status = IF @ = "completed" THEN "generating" ELSE @]
              /\ jobs' = Schedule(jobs, {dishId}, provider)
              /\ ret' = Ret("generateSingleDishImage", "ok", 1)
    /\ UNCHANGED <<CONFIG, user, client, pipe, billed, storage>>

\* generateSingleDishImage whose ceiling test lets one more dish through
generateSingleDishImage_CeilingOffByOne(dishId) ==
    /\ DetailShown
    /\ IF ~DishExists(dishId)
       THEN /\ UNCHANGED <<scan, dishes, jobs>>
            /\ ret' = Ret("generateSingleDishImage", "throws", 0)
       ELSE IF dishes[dishId].imageStatus \in {"completed", "generating", "queued"}
       THEN /\ UNCHANGED <<scan, dishes, jobs>>
            \* "Image already generated or in progress" for all three; the
            \* status that was read is kept to tell them apart
            /\ ret' = Ret("generateSingleDishImage", dishes[dishId].imageStatus, 0)
       ELSE IF ~scan.exists
       THEN /\ UNCHANGED <<scan, dishes, jobs>>
            /\ ret' = Ret("generateSingleDishImage", "throws", 0)
       ELSE IF scan.imagesRequested > CONFIG.MAX_IMAGES_PER_SCAN
       THEN /\ UNCHANGED <<scan, dishes, jobs>>
            /\ ret' = Ret("generateSingleDishImage", "max reached", 0)
       ELSE \E provider \in {DEFAULT_IMAGE_PROVIDER} :
              /\ dishes' = [dishes EXCEPT ![dishId].imageStatus = "queued"]
              /\ scan' = [scan EXCEPT
                            !.imagesRequested = @ + 1,
                            !.estimatedCostUsd = @ + IMAGE_OPENAI,
                            !.status = IF @ = "completed" THEN "generating" ELSE @]
              /\ jobs' = Schedule(jobs, {dishId}, provider)
              /\ ret' = Ret("generateSingleDishImage", "ok", 1)
    /\ UNCHANGED <<CONFIG, user, client, pipe, billed, storage>>

\* the mutation and, in generateSingleDishImage, the scheduled job
generateSingleDishImage(dishId) ==
    /\ DetailShown
    /\ IF ~DishExists(dishId)
       THEN /\ UNCHANGED <<scan, dishes, jobs>>
            /\ ret' = Ret("generateSingleDishImage", "throws", 0)
       ELSE IF dishes[dishId].imageStatus \in {"completed", "generating", "queued"}
       THEN /\ UNCHANGED <<scan, dishes, jobs>>
            \* "Image already generated or in progress" for all three; the
            \* status that was read is kept to tell them apart
            /\ ret' = Ret("generateSingleDishImage", dishes[dishId].imageStatus, 0)
       ELSE IF ~scan.exists
       THEN /\ UNCHANGED <<scan, dishes, jobs>>
            /\ ret' = Ret("generateSingleDishImage", "throws", 0)
       ELSE IF scan.imagesRequested >= CONFIG.MAX_IMAGES_PER_SCAN
       THEN /\ UNCHANGED <<scan, dishes, jobs>>
            /\ ret' = Ret("generateSingleDishImage", "max reached", 0)
       ELSE \E provider \in {DEFAULT_IMAGE_PROVIDER} :
              /\ dishes' = [dishes EXCEPT ![dishId].imageStatus = "queued"]
              /\ scan' = [scan EXCEPT
                            !.imagesRequested = @ + 1,
                            !.estimatedCostUsd = @ + IMAGE_OPENAI,
                            !.status = IF @ = "completed" THEN "generating" ELSE @]
              /\ jobs' = Schedule(jobs, {dishId}, provider)
              /\ ret' = Ret("generateSingleDishImage", "ok", 1)
    /\ UNCHANGED <<CONFIG, user, client, pipe, billed, storage>>

\* -------------------------------------------------- stopImageGeneration
\* stopDishes marking the generating dishes as well
stopDishes_SkipsGenerating(ds) ==
    [d \in DOMAIN ds |->
        IF ds[d].exists /\ ds[d].imageStatus \in {"queued", "generating"}
        THEN [ds[d] EXCEPT !.imageStatus = "skipped"]
        ELSE ds[d]]

\* the loop over the scan's dishes: queued dishes are patched to skipped
stopDishes(ds) ==
    [d \in DOMAIN ds |->
        IF ds[d].exists /\ ds[d].imageStatus = "queued"
        THEN [ds[d] EXCEPT !.imageStatus = "skipped"]
        ELSE ds[d]]

\* the patch of the scan, from the counts taken over the dishes as read
stopScan(s, ds) ==
    LET skipped == CountStatus(ds, "queued")
        completed == CountStatus(ds, "completed")
    IN [s EXCEPT !.status = "completed",
                 !.imagesGenerated = completed,
                 !.statusMessage = Msg("Stopped", completed, skipped)]

stopImageGeneration ==
    /\ DetailShown
    /\ IF ~scan.exists
       THEN /\ UNCHANGED <<scan, dishes>>
            /\ ret' = Ret("stopImageGeneration", "throws", 0)
       ELSE /\ dishes' = stopDishes(dishes)
            /\ scan' = stopScan(scan, dishes)
            /\ ret' = Ret("stopImageGeneration", "ok", 0)
    /\ UNCHANGED <<CONFIG, user, client, pipe, jobs, billed, storage>>

\* ---------------------------------------------------- forceCompleteScan
\* forceDishes leaving the generating dishes alone
forceDishes_LeavesGenerating(ds) ==
    [d \in DOMAIN ds |->
        IF ds[d].exists /\ ds[d].imageStatus = "queued"
        THEN [ds[d] EXCEPT !.imageStatus = "skipped"]
        ELSE ds[d]]

\* the loop over the scan's dishes: queued and generating dishes are
\* patched to skipped
forceDishes(ds) ==
    [d \in DOMAIN ds |->
        IF ds[d].exists /\ ds[d].imageStatus \in {"queued", "generating"}
        THEN [ds[d] EXCEPT !.imageStatus = "skipped"]
        ELSE ds[d]]

\* forceScan leaving imagesGenerated as the workers counted it
forceScan_KeepsCount(s, ds) ==
    LET completedImages == CountStatus(ds, "completed")
    IN [s EXCEPT !.status = "completed",
                 !.statusMessage = Msg("Completed with", completedImages, 0)]

\* the patch of the scan, from the count taken over the dishes as read
forceScan(s, ds) ==
    LET completedImages == CountStatus(ds, "completed")
    IN [s EXCEPT !.status = "completed",
                 !.imagesGenerated = completedImages,
                 !.statusMessage = Msg("Completed with", completedImages, 0)]

forceCompleteScan ==
    /\ DetailShown
    /\ IF ~scan.exists
       THEN /\ UNCHANGED <<scan, dishes>>
            /\ ret' = Ret("forceCompleteScan", "throws", 0)
       ELSE /\ dishes' = forceDishes(dishes)
            /\ scan' = forceScan(scan, dishes)
            /\ ret' = Ret("forceCompleteScan", "ok", 0)
    /\ UNCHANGED <<CONFIG, user, client, pipe, jobs, billed, storage>>

\* ----------------------------------------------------------- deleteScan
\* deleteScan deleting the scan document only
deleteScan_LeavesDishes ==
    /\ IF ~scan.exists
       THEN /\ UNCHANGED <<user, scan, dishes, storage>>
            /\ ret' = Ret("deleteScan", "throws", 0)
       ELSE /\ dishes' = dishes
            /\ storage' = storage
            /\ scan' = DeletedScan
            /\ user' = IF user.scanCount > 0
                       THEN [user EXCEPT !.scanCount = @ - 1] ELSE user
            /\ ret' = Ret("deleteScan", "ok", 0)
    /\ UNCHANGED <<CONFIG, client, pipe, jobs, billed>>

\* the dishes of the scan, the image blobs they refer to and the scan are
\* deleted, and the device user's scanCount is decremented when it is
\* above 0
deleteScan ==
    /\ IF ~scan.exists
       THEN /\ UNCHANGED <<user, scan, dishes, storage>>
            /\ ret' = Ret("deleteScan", "throws", 0)
       ELSE /\ dishes' = [d \in DOMAIN dishes |-> DeletedDish]
            \* storage.delete of the blob each dish document refers to
            /\ storage' = [d \in DOMAIN storage |->
                              IF DishExists(d) /\ dishes[d].imageStorageId
                              THEN storage[d] - 1 ELSE storage[d]]
            /\ scan' = DeletedScan
            /\ user' = IF user.scanCount > 0
                       THEN [user EXCEPT !.scanCount = @ - 1] ELSE user
            /\ ret' = Ret("deleteScan", "ok", 0)
    /\ UNCHANGED <<CONFIG, client, pipe, jobs, billed>>

\* ----------------------------------------------------------------- Next
Next ==
    \/ storeMenuImage
    \/ startProcessingScan
    \/ PipelineGetScan
    \/ PipelineSetProcessing
    \/ PipelineCallVision
    \/ PipelineUpdateTotals
    \/ PipelineCreateDish
    \/ PipelineUpdateCounts
    \/ PipelineSetGenerating
    \/ PipelineSchedule
    \/ PipelineCatch
    \/ \E j \in BagToSet(jobs) : WorkerStart(j)
    \/ \E j \in BagToSet(jobs) : WorkerGenerate(j)
    \/ \E j \in BagToSet(jobs) : WorkerCatch(j)
    \/ \E j \in BagToSet(jobs) : WorkerGetScan(j)
    \/ \E j \in BagToSet(jobs) : WorkerUpdateProgress(j)
    \/ \E j \in BagToSet(jobs) : WorkerSetCompleted(j)
    \/ generateRemainingImages
    \/ \E dishId \in DishIds : generateSingleDishImage(dishId)
    \/ stopImageGeneration
    \/ forceCompleteScan
    \/ deleteScan

Spec == Init /\ [][Next]_vars

\* ------------------------------------------------------------ fairness
\* some statement of the running processScanPipeline invocation
PipelineStep ==
    \/ PipelineGetScan
    \/ PipelineSetProcessing
    \/ PipelineCallVision
    \/ PipelineUpdateTotals
    \/ PipelineCreateDish
    \/ PipelineUpdateCounts
    \/ PipelineSetGenerating
    \/ PipelineSchedule
    \/ PipelineCatch

\* some statement of the generateDishImage invocation j
WorkerStep(j) ==
    \/ WorkerStart(j)
    \/ WorkerGenerate(j)
    \/ WorkerCatch(j)
    \/ WorkerGetScan(j)
    \/ WorkerUpdateProgress(j)
    \/ WorkerSetCompleted(j)

\* the scheduler runs every scheduled function and an action that has
\* started runs to its end: its provider calls return or throw
SpecLive ==
    /\ Init /\ [][Next]_vars
    /\ WF_vars(PipelineStep)
    /\ WF_vars(\E j \in BagToSet(jobs) : WorkerStep(j))

\* ------------------------------------------------- a second invocation
\* startProcessingScan is a public action that reads no status: a client
\* can invoke it again on a scan whose pipeline has ended.  The app never
\* does, so this step is not part of Next.
startProcessingScanAgain ==
    /\ client = "started"
    /\ pipe.pc = "done"
    /\ IF scan.exists
       THEN \E provider \in ImageProviders :
              /\ scan' = updateScanStatus(scan, "processing",
                             [statusMessage |-> Msg("Analyzing menu image...", 0, 0)])
              /\ pipe' = [IdlePipe EXCEPT !.pc = "scheduled",
                                           !.imageProvider = provider]
              /\ client' = "restarted"
              /\ ret' = Ret("startProcessingScan", "ok", 0)
       ELSE /\ UNCHANGED <<scan, pipe>>
            /\ client' = "aborted"
            /\ ret' = Ret("startProcessingScan", "throws", 0)
    /\ UNCHANGED <<CONFIG, user, dishes, jobs, billed, storage>>

\* the capture flow, the pipeline and deletion, with a second invocation;
\* the scheduled workers do not run
NextRerun ==
    \/ storeMenuImage
    \/ startProcessingScan
    \/ startProcessingScanAgain
    \/ PipelineGetScan
    \/ PipelineSetProcessing
    \/ PipelineCallVision
    \/ PipelineUpdateTotals
    \/ PipelineCreateDish
    \/ PipelineUpdateCounts
    \/ PipelineSetGenerating
    \/ PipelineSchedule
    \/ PipelineCatch
    \/ deleteScan

SpecRerun == Init /\ [][NextRerun]_vars

\* ------------------------------------------------------------- queries
\* a value n / d of the progress computation, which is not rounded
Frac(n, d) == <<n, d>>

\* progress with the generating range starting at 50
progress_GeneratingFrom50(s) ==
    CASE s.status = "pending" -> Frac(0, 1)
      [] s.status = "uploading" -> Frac(10, 1)
      [] s.status = "processing" -> Frac(25, 1)
      [] s.status = "extracting" -> Frac(50, 1)
      [] s.status = "generating" ->
            LET imageProgress == IF s.imagesRequested > 0
                                 THEN Frac(s.imagesGenerated * 40, s.imagesRequested)
                                 ELSE Frac(0, 1)
            IN Frac(50 * imageProgress[2] + imageProgress[1], imageProgress[2])
      [] s.status = "completed" -> Frac(100, 1)
      [] s.status = "failed" -> Frac(0, 1)
      [] OTHER -> Frac(0, 1)

\* the switch over scan.status of getScan and getScanWithDishes
progress(s) ==
    CASE s.status = "pending" -> Frac(0, 1)
      [] s.status = "uploading" -> Frac(10, 1)
      [] s.status = "processing" -> Frac(25, 1)
      [] s.status = "extracting" -> Frac(50, 1)
      [] s.status = "generating" ->
            LET imageProgress == IF s.imagesRequested > 0
                                 THEN Frac(s.imagesGenerated * 40, s.imagesRequested)
                                 ELSE Frac(0, 1)
            IN Frac(60 * imageProgress[2] + imageProgress[1], imageProgress[2])
      [] s.status = "completed" -> Frac(100, 1)
      [] s.status = "failed" -> Frac(0, 1)
      [] OTHER -> Frac(0, 1)

\* getScan: null for a missing scan, else the document with its progress
getScan(s) ==
    IF ~s.exists THEN [found |-> FALSE, scan |-> s, progress |-> Frac(0, 1)]
    ELSE [found |-> TRUE, scan |-> s, progress |-> progress(s)]

\* getScanWithDishes: null for a missing scan, else the document with its
\* progress and the scan's dishes
getScanWithDishes(s, ds) ==
    IF ~s.exists
    THEN [found |-> FALSE, scan |-> s, progress |-> Frac(0, 1), dishes |-> {}]
    ELSE [found |-> TRUE, scan |-> s, progress |-> progress(s),
          dishes |-> {d \in DOMAIN ds : ds[d].exists}]

\* ================================================================ claims

\* C1: in every reachable state of a scan,
\* 0 <= imagesGenerated <= imagesRequested.
C1_GeneratedWithinRequested ==
    scan.exists =>
        /\ 0 <= scan.imagesGenerated
        /\ scan.imagesGenerated <= scan.imagesRequested

\* the status graph of the scan state machine: the chain, and failed from
\* any non-terminal status
ChainEdges ==
    {<<"pending", "uploading">>, <<"uploading", "processing">>,
     <<"processing", "extracting">>, <<"extracting", "generating">>,
     <<"generating", "completed">>}
    \cup {<<st, "failed">> : st \in {"pending", "uploading", "processing",
                                    "extracting", "generating"}}

StatusChanges == scan.exists /\ scan'.exists /\ scan.status # scan'.status

C3_OneBilledGenerationPerDish ==
    \A d \in DishIds : billed[d] <= 1

\* C4: in every reachable state imagesRequested <= MAX_IMAGES_PER_SCAN.
C4_RequestedWithinCeiling ==
    scan.exists => scan.imagesRequested <= CONFIG.MAX_IMAGES_PER_SCAN

\* a queueing call stopped at the ceiling: it queued fewer dishes than were
\* eligible, or refused the one dish asked for
C4_Witness ==
    /\ scan.exists
    /\ scan.imagesRequested = CONFIG.MAX_IMAGES_PER_SCAN
    /\ pendingDishes(dishes) # {}
    /\ \/ ret.op = "generateRemainingImages" /\ ret.queued > 0
       \/ ret.op = "generateSingleDishImage" /\ ret.result = "max reached"

\* C5: a queueRemainingImages call on a scan with one slot left and two
\* or more eligible dishes queues exactly one dish, reports queued = 1 and
\* leaves imagesRequested = MAX_IMAGES_PER_SCAN; a call on a scan at the
\* ceiling reports queued = 0 and changes nothing.  Calls are transactions,
\* so two concurrent calls are these two steps in some order and together
\* queue at most one dish.
C5_TwoCallsQueueOne ==
    [][(generateRemainingImages /\ scan.exists) =>
        LET room == CONFIG.MAX_IMAGES_PER_SCAN - scan.imagesRequested
            newlyQueued == {d \in DOMAIN dishes :
                               /\ dishes[d].imageStatus # "queued"
                               /\ dishes'[d].imageStatus = "queued"}
        IN /\ (room = 1 /\ Cardinality(pendingDishes(dishes)) >= 2) =>
                  /\ ret'.queued = 1
                  /\ Cardinality(newlyQueued) = 1
                  /\ scan'.imagesRequested = CONFIG.MAX_IMAGES_PER_SCAN
           /\ room = 0 =>
                  /\ ret'.queued = 0
                  /\ UNCHANGED <<scan, dishes, jobs>>]_vars

\* the second of two calls has answered: the ceiling is reached, a dish is
\* still eligible and the call reported none queued
C5_Witness ==
    /\ scan.exists
    /\ scan.imagesRequested = CONFIG.MAX_IMAGES_PER_SCAN
    /\ pendingDishes(dishes) # {}
    /\ ret.op = "generateRemainingImages" /\ ret.queued = 0
    /\ CountStatus(dishes, "queued") = 1

\* C6: every worker's counter write raises imagesGenerated by exactly one,
\* however the workers interleave (no stop or force-complete has replaced
\* the pipeline's status message), so k finishing workers raise it by k.
C6_NoLostIncrement ==
    [][\A j \in BagToSet(jobs) :
          (/\ WorkerUpdateProgress(j)
           /\ scan.exists
           /\ scan.statusMessage.text = "Generating images for N dishes...")
          => scan'.imagesGenerated = scan.imagesGenerated + 1]_vars

\* C7: a scan the pipeline set to generating, untouched by stop,
\* force-complete or delete, is not left in generating once every
\* scheduled worker has terminated.
C7_CompletedWhenWorkersDone ==
    (/\ scan.exists
     /\ pipe.pc = "done"
     /\ scan.status = "generating"
     /\ scan.statusMessage.text = "Generating images for N dishes...")
    => jobs # EmptyBag

\* C8: a worker started on a dish whose imageStatus is completed or
\* generating ends at once: no dish is patched and the invocation is gone
\* (no provider call, no counter or cost update follows).
C8_WorkerGuardNoOp ==
    [][\A j \in BagToSet(jobs) :
          (/\ WorkerStart(j)
           /\ DishExists(j.dishId)
           /\ dishes[j.dishId].imageStatus \in {"completed", "generating"})
          => /\ dishes' = dishes
             /\ jobs' = Finish(j)]_vars

\* C9: the single-dish trigger on a dish that is completed or generating
\* changes neither the dish, nor the scan, nor the scheduled jobs.
C9_SingleTriggerNoOp ==
    [][\A dishId \in DishIds :
          (/\ generateSingleDishImage(dishId)
           /\ DishExists(dishId)
           /\ dishes[dishId].imageStatus \in {"completed", "generating"})
          => UNCHANGED <<scan, dishes, jobs>>]_vars

\* the trigger was served on a completed or generating dish
C9_Witness ==
    /\ ret.op = "generateSingleDishImage"
    /\ ret.result \in {"completed", "generating"}

\* C10: once stopImageGeneration has set the scan to completed, no step of
\* a worker changes the status.
C10_WorkerKeepsCompleted ==
    [][\A j \in BagToSet(jobs) :
          (/\ \/ WorkerStart(j) \/ WorkerGenerate(j) \/ WorkerCatch(j)
              \/ WorkerGetScan(j) \/ WorkerUpdateProgress(j)
              \/ WorkerSetCompleted(j)
           /\ scan.status = "completed"
           /\ ret.op = "stopImageGeneration")
          => scan'.status = "completed"]_vars

\* a worker that was in flight at the stop has since written its
\* completion over the stop's message
C10_Witness ==
    /\ scan.status = "completed"
    /\ ret.op = "stopImageGeneration" /\ ret.result = "ok"
    /\ scan.statusMessage.text \in {"All images generated!",
                                    "Processing complete (some images failed)"}

\* C11: stopImageGeneration, as one step, marks every queued dish skipped,
\* leaves every other dish (generating, pending, completed, failed, skipped)
\* as it is, and sets the scan to completed with a status message that
\* records the number of completed dishes.
C11_StopSkipsQueuedOnly ==
    [][(stopImageGeneration /\ scan.exists) =>
        /\ DOMAIN dishes' = DOMAIN dishes
        /\ \A d \in DOMAIN dishes :
              dishes'[d] = IF dishes[d].imageStatus = "queued"
                           THEN [dishes[d] EXCEPT !.imageStatus = "skipped"]
                           ELSE dishes[d]
        /\ scan'.status = "completed"
        /\ scan'.statusMessage.text = "Stopped"
        /\ scan'.statusMessage.a = CountStatus(dishes, "completed")]_vars

\* stop was called while one dish was queued and another was generating:
\* the first is skipped, the second still generating under its worker
C11_Witness ==
    /\ ret.op = "stopImageGeneration" /\ ret.result = "ok"
    /\ scan.status = "completed"
    /\ scan.statusMessage.text = "Stopped" /\ scan.statusMessage.b >= 1
    /\ \E d \in ScanDishes : dishes[d].imageStatus = "skipped"
    /\ \E j \in BagToSet(jobs) :
          /\ j.pc = "callImageAPI"
          /\ DishExists(j.dishId)
          /\ dishes[j.dishId].imageStatus = "generating"

\* C12: a worker job that starts on a dish which stop or force-complete
\* has marked skipped (and which was not re-queued) leaves the dish skipped.
C12_SkippedJobDoesNotRun ==
    [][\A j \in BagToSet(jobs) :
          (/\ WorkerStart(j)
           /\ DishExists(j.dishId)
           /\ dishes[j.dishId].imageStatus = "skipped")
          => dishes' = dishes]_vars

SameScanData(s, t) ==
    /\ s.status = t.status
    /\ s.imagesGenerated = t.imagesGenerated
    /\ s.imagesRequested = t.imagesRequested
    /\ s.statusMessage = t.statusMessage

\* C14: wherever stopImageGeneration or forceCompleteScan can be invoked,
\* invoking it twice in a row leaves status, imagesGenerated,
\* imagesRequested, statusMessage and every dish's imageStatus as the first
\* invocation left them.
C14_StopForceIdempotent ==
    (scan.exists /\ DetailShown) =>
        /\ LET d1 == stopDishes(dishes)
               s1 == stopScan(scan, dishes)
           IN /\ stopDishes(d1) = d1
              /\ SameScanData(stopScan(s1, d1), s1)
        /\ LET d1 == forceDishes(dishes)
               s1 == forceScan(scan, dishes)
           IN /\ forceDishes(d1) = d1
              /\ SameScanData(forceScan(s1, d1), s1)

\* the edges of the dish image state machine
DishEdges ==
    {<<"pending", "queued">>, <<"queued", "generating">>,
     <<"generating", "completed">>,
     <<"queued", "failed">>, <<"generating", "failed">>,
     <<"pending", "skipped">>, <<"queued", "skipped">>}

\* C15: a dish's imageStatus changes only along pending -> queued ->
\* generating -> completed, to failed from queued or generating and to
\* skipped from pending or queued, so completed, failed and skipped are
\* never left.
C15_DishGraphTerminal ==
    [][\A d \in DOMAIN dishes :
          (/\ d \in DOMAIN dishes'
           /\ dishes[d].exists /\ dishes'[d].exists
           /\ dishes[d].imageStatus # dishes'[d].imageStatus)
          => <<dishes[d].imageStatus, dishes'[d].imageStatus>> \in DishEdges]_vars

\* C16: a worker sets a dish to generating only when the dish's
\* imageStatus is pending or queued, never when it is skipped, failed,
\* completed or generating.
C16_GeneratingOnlyFromPendingOrQueued ==
    [][\A j \in BagToSet(jobs) :
          (/\ WorkerStart(j)
           /\ DishExists(j.dishId)
           /\ dishes'[j.dishId].imageStatus = "generating")
          => dishes[j.dishId].imageStatus \in {"pending", "queued"}]_vars

\* C17: on a scan whose imagesRequested has reached MAX_IMAGES_PER_SCAN,
\* queueRemainingImages and queueSingleDishImage (on an existing dish)
\* return without throwing, report nothing queued, and change no dish, no
\* field of the scan and no scheduled job.
C17_AtCeilingNoOp ==
    [][/\ (/\ generateRemainingImages
           /\ scan.exists
           /\ scan.imagesRequested >= CONFIG.MAX_IMAGES_PER_SCAN)
          => /\ ret'.result # "throws" /\ ret'.queued = 0
             /\ UNCHANGED <<scan, dishes, jobs>>
       /\ \A dishId \in DishIds :
            (/\ generateSingleDishImage(dishId)
             /\ DishExists(dishId) /\ scan.exists
             /\ scan.imagesRequested >= CONFIG.MAX_IMAGES_PER_SCAN)
            => /\ ret'.result # "throws" /\ ret'.queued = 0
               /\ UNCHANGED <<scan, dishes, jobs>>]_vars

\* the single-dish trigger was refused at the ceiling for a dish that
\* could otherwise be queued
C17_Witness ==
    /\ scan.exists
    /\ scan.imagesRequested = CONFIG.MAX_IMAGES_PER_SCAN
    /\ ret.op = "generateSingleDishImage" /\ ret.result = "max reached"
    /\ \E d \in ScanDishes :
          dishes[d].imageStatus \in {"pending", "skipped", "failed"}

\* C18: queueRemainingImages, as one step, marks exactly the
\* n = min(eligible dishes, MAX_IMAGES_PER_SCAN - imagesRequested) eligible
\* (pending or skipped) dishes of lowest displayOrder as queued, changes no
\* other dish, raises imagesRequested by n, reports n and hands exactly
\* those n dishes to the scheduler.
C18_QueuesLowestN ==
    [][(generateRemainingImages /\ scan.exists) =>
        LET eligible == pendingDishes(dishes)
            n == Min(Cardinality(eligible),
                     CONFIG.MAX_IMAGES_PER_SCAN - scan.imagesRequested)
            lowest == {d \in eligible :
                          Cardinality({e \in eligible :
                              dishes[e].displayOrder < dishes[d].displayOrder}) < n}
        IN /\ Cardinality(lowest) = n
           /\ DOMAIN dishes' = DOMAIN dishes
           /\ \A d \in DOMAIN dishes :
                 dishes'[d] = IF d \in lowest
                              THEN [dishes[d] EXCEPT !.imageStatus = "queued"]
                              ELSE dishes[d]
           /\ scan'.imagesRequested = scan.imagesRequested + n
           /\ ret'.queued = n
           /\ \E provider \in ImageProviders :
                 jobs' = jobs (+) [j \in {NewJob(d, provider) : d \in lowest} |-> 1]]_vars

\* a call with one slot left and two eligible dishes has queued the dish
\* of lower displayOrder and left the other pending
C18_Witness ==
    /\ ret.op = "generateRemainingImages" /\ ret.queued = 1
    /\ scan.exists
    /\ scan.imagesRequested = CONFIG.MAX_IMAGES_PER_SCAN
    /\ \E d, e \in ScanDishes :
          /\ dishes[d].displayOrder < dishes[e].displayOrder
          /\ dishes[d].imageStatus = "queued"
          /\ dishes[e].imageStatus = "pending"
          /\ NewJob(d, DEFAULT_IMAGE_PROVIDER) \in BagToSet(jobs)

\* C19: of the n dishes of a successful extraction, each is created queued
\* when its displayOrder is below AUTO_IMAGE_LIMIT and pending otherwise;
\* the pipeline then sets imagesRequested to min(n, AUTO_IMAGE_LIMIT) and
\* schedules exactly one worker job for each dish of displayOrder below
\* AUTO_IMAGE_LIMIT.
C19_AutoQueueFirstN ==
    [][/\ (PipelineCreateDish /\ Len(dishes') > Len(dishes)) =>
            LET dish == dishes'[Len(dishes')]
            IN /\ dish.displayOrder = Len(dishes)
               /\ dish.imageStatus =
                     IF dish.displayOrder < CONFIG.AUTO_IMAGE_LIMIT
                     THEN "queued" ELSE "pending"
       /\ (PipelineUpdateCounts /\ scan.exists) =>
            /\ Cardinality(ScanDishes) = pipe.totalDishes
            /\ \A d \in ScanDishes :
                  dishes[d].imageStatus =
                     IF dishes[d].displayOrder < CONFIG.AUTO_IMAGE_LIMIT
                     THEN "queued" ELSE "pending"
            /\ scan'.imagesRequested =
                  Min(pipe.totalDishes, CONFIG.AUTO_IMAGE_LIMIT)
       /\ (PipelineSchedule /\ scan.exists) =>
            jobs' = jobs (+)
                [j \in {NewJob(d, pipe.imageProvider) :
                           d \in {e \in ScanDishes :
                                    dishes[e].displayOrder < CONFIG.AUTO_IMAGE_LIMIT}}
                   |-> 1]]_vars

\* the pipeline has ended on a menu of two dishes with AUTO_IMAGE_LIMIT = 1:
\* the first dish is queued with its one job, the second is pending
C19_Witness ==
    /\ pipe.pc = "done" /\ scan.exists
    /\ CONFIG.AUTO_IMAGE_LIMIT = 1 /\ pipe.totalDishes = 2
    /\ scan.imagesRequested = 1
    /\ Len(dishes) = 2
    /\ dishes[1].imageStatus = "queued" /\ dishes[2].imageStatus = "pending"
    /\ jobs = SetToBag({NewJob(1, pipe.imageProvider)})

\* C20: when AUTO_IMAGE_LIMIT = 0 or the extraction yields no dish, the
\* pipeline's last step schedules no job and sets the scan to completed;
\* when no client operation was served since the pipeline started, every
\* created dish is then pending, no job exists and imagesRequested = 0.
C20_NothingQueuedCompletes ==
    [][(/\ PipelineSchedule
        /\ scan.exists
        /\ CONFIG.AUTO_IMAGE_LIMIT = 0 \/ pipe.totalDishes = 0)
       => /\ jobs' = jobs
          /\ scan'.status = "completed"
          /\ ret.op = "startProcessingScan" =>
                /\ \A d \in ScanDishes : dishes'[d].imageStatus = "pending"
                /\ jobs' = EmptyBag
                /\ scan'.imagesRequested = 0]_vars

\* a menu of two dishes processed with AUTO_IMAGE_LIMIT = 0 is completed
\* with both dishes pending and nothing requested
C20_Witness ==
    /\ scan.status = "completed"
    /\ scan.statusMessage.text = "Menu processed successfully!"
    /\ CONFIG.AUTO_IMAGE_LIMIT = 0
    /\ Len(dishes) = 2
    /\ \A d \in ScanDishes : dishes[d].imageStatus = "pending"
    /\ scan.imagesRequested = 0
    /\ jobs = EmptyBag

C22_FailureStillCounts ==
    [][\A j \in BagToSet(jobs) :
          /\ (WorkerCatch(j) /\ DishExists(j.dishId)) =>
                /\ dishes'[j.dishId].imageStatus = "failed"
                /\ dishes'[j.dishId].imageError
          /\ (/\ WorkerUpdateProgress(j) /\ ~j.ok
              /\ scan.exists
              /\ scan.statusMessage.text = "Generating images for N dishes...")
             => /\ scan'.imagesGenerated = scan.imagesGenerated + 1
                /\ scan'.imagesGenerated >= scan'.imagesRequested =>
                      [j EXCEPT !.pc = "updateScanStatus"] \in BagToSet(jobs')]_vars

\* C23: a worker's completion write on a scan that has a failed dish
\* leaves a statusMessage that notes the failure, whichever worker
\* finished last.
C23_CompletionNotesFailure ==
    [][\A j \in BagToSet(jobs) :
          (/\ WorkerSetCompleted(j)
           /\ scan.exists
           /\ \E d \in ScanDishes : dishes[d].imageStatus = "failed")
          => scan'.statusMessage.text =
                 "Processing complete (some images failed)"]_vars

\* C24: no step of a failed worker execution (its catch block and what
\* follows it) changes actualCostUsd, another dish, or any field of the
\* scan other than imagesGenerated, status and statusMessage; the status
\* is left as it is or set to completed, never to failed.
C24_FailureIsIsolated ==
    [][\A j \in BagToSet(jobs) :
          (\/ WorkerCatch(j)
           \/ /\ ~j.ok
              /\ \/ WorkerGetScan(j) \/ WorkerUpdateProgress(j)
                 \/ WorkerSetCompleted(j))
          => /\ scan'.actualCostUsd = scan.actualCostUsd
             /\ \A d \in DOMAIN dishes : d # j.dishId => dishes'[d] = dishes[d]
             /\ scan'.status \in {scan.status, "completed"}
             /\ scan' = [scan EXCEPT !.imagesGenerated = scan'.imagesGenerated,
                                     !.status = scan'.status,
                                     !.statusMessage = scan'.statusMessage]]_vars

\* a failed execution has ended while another dish's worker is in flight:
\* the dish is failed, the failure is counted, only the vision cost is
\* spent, the other dish is still generating and the scan is not failed
C24_Witness ==
    /\ scan.exists /\ scan.status = "generating"
    /\ scan.imagesGenerated = 1
    /\ scan.actualCostUsd = VISION_PARSE
    /\ \E d, e \in ScanDishes :
          /\ dishes[d].imageStatus = "failed" /\ dishes[d].imageError
          /\ \A j \in BagToSet(jobs) : j.dishId # d
          /\ dishes[e].imageStatus = "generating"
          /\ \E j \in BagToSet(jobs) : j.dishId = e /\ j.pc = "callImageAPI"

\* C25 as stated: whatever the error, scan missing included, the
\* pipeline's catch block leaves the scan in status failed with the error
\* in errorMessage.
C25_AnyErrorFailsScan ==
    [][PipelineCatch => scan'.status = "failed" /\ scan'.errorMessage]_vars

\* C25 amended: the catch block leaves the dishes and the scheduled jobs as
\* they are, the pipeline takes no step after it, and when the scan still
\* exists it is left in status failed with the error in errorMessage; when
\* the scan has been deleted nothing is recorded.
C25_ErrorFailsExistingScan ==
    [][/\ PipelineCatch =>
            /\ dishes' = dishes /\ jobs' = jobs
            /\ scan' = IF scan.exists
                       THEN [scan EXCEPT !.status = "failed",
                                         !.errorMessage = TRUE]
                       ELSE scan
       /\ pipe.pc = "catch" => pipe'.pc \in {"catch", "done"}
       /\ pipe.pc = "done" => pipe' = pipe]_vars

\* the pipeline failed on the second of two items: the scan is failed with
\* its errorMessage, the first dish is still there and no job was scheduled
C25_Witness ==
    /\ pipe.pc = "done" /\ pipe.totalDishes = 2
    /\ scan.exists /\ scan.status = "failed" /\ scan.errorMessage
    /\ Len(dishes) = 1 /\ dishes[1].exists
    /\ jobs = EmptyBag

\* C26: in every reachable state of a scan, imagesRequested <= totalDishes.
C26_RequestedWithinTotal ==
    scan.exists => scan.imagesRequested <= scan.totalDishes

\* C29: a successful deleteScan leaves neither the scan nor any dish
\* document, and the device user's scanCount one lower, never below 0.
C29_DeleteRemovesAll ==
    [][(deleteScan /\ scan.exists) =>
        /\ ~scan'.exists
        /\ \A d \in DOMAIN dishes' : ~dishes'[d].exists
        /\ user'.scanCount = IF user.scanCount > 0
                             THEN user.scanCount - 1 ELSE 0
        /\ user'.scanCount >= 0]_vars

\* a scan with two dishes has been deleted
C29_Witness ==
    /\ ret.op = "deleteScan" /\ ret.result = "ok"
    /\ ~scan.exists
    /\ Len(dishes) = 2 /\ \A d \in DOMAIN dishes : ~dishes[d].exists
    /\ user.scanCount = 0

\* C30: in every reachable state of a scan, dishesExtracted <= totalDishes,
\* also while a repeated pipeline invocation rewrites the two counts.
C30_ExtractedWithinTotal ==
    scan.exists => scan.dishesExtracted <= scan.totalDishes

\* C27: within the scan the dishes' displayOrder values are distinct and
\* are 0..n-1, also after a repeated pipeline invocation.
C27_DisplayOrderUnique ==
    scan.exists =>
        /\ \A d, e \in ScanDishes :
              d # e => dishes[d].displayOrder # dishes[e].displayOrder
        /\ {dishes[d].displayOrder : d \in ScanDishes}
              = 0..(Cardinality(ScanDishes) - 1)

\* equality of two values n / d
SameFrac(a, b) == a[1] * b[2] = b[1] * a[2]

\* the progress of a scan as C28 states it
StatedProgress(s) ==
    CASE s.status = "pending" -> Frac(0, 1)
      [] s.status = "uploading" -> Frac(10, 1)
      [] s.status = "processing" -> Frac(25, 1)
      [] s.status = "extracting" -> Frac(50, 1)
      [] s.status = "completed" -> Frac(100, 1)
      [] s.status = "failed" -> Frac(0, 1)
      [] s.status = "generating" ->
            IF s.imagesRequested = 0 THEN Frac(60, 1)
            ELSE Frac(60 * s.imagesRequested + 40 * s.imagesGenerated,
                      s.imagesRequested)

\* C28: for every stored scan, getScan and getScanWithDishes return the
\* stored document with the progress 0, 10, 25, 50, 100, 0 for pending,
\* uploading, processing, extracting, completed, failed and
\* 60 + 40 * imagesGenerated / imagesRequested in generating (60 when
\* imagesRequested = 0).
C28_ProgressFunction ==
    scan.exists =>
        /\ getScan(scan).found /\ getScan(scan).scan = scan
        /\ SameFrac(getScan(scan).progress, StatedProgress(scan))
        /\ getScanWithDishes(scan, dishes).scan = scan
        /\ SameFrac(getScanWithDishes(scan, dishes).progress,
                    StatedProgress(scan))

\* a generating scan with one of its two requested images done reads 80
C28_Witness ==
    /\ scan.exists /\ scan.status = "generating"
    /\ scan.imagesGenerated = 1 /\ scan.imagesRequested = 2
    /\ SameFrac(getScan(scan).progress, Frac(80, 1))

\* no worker has added an image cost and no dish was queued by hand
OnlyPipelineCosts ==
    /\ \A d \in DishIds : billed[d] = 0
    /\ scan.imagesRequested = Min(pipe.totalDishes, CONFIG.AUTO_IMAGE_LIMIT)

\* C31: when the pipeline run ends successfully, before any worker has
\* finished, actualCostUsd is the vision cost counted once and
\* estimatedCostUsd is its creation-time value plus
\* min(totalDishes, AUTO_IMAGE_LIMIT) times the run's provider's unit cost.
C31_CostsAfterPipeline ==
    [][(PipelineSchedule /\ pipe'.pc = "done" /\ scan.exists
            /\ OnlyPipelineCosts) =>
        /\ scan'.actualCostUsd = VISION_PARSE
        /\ scan'.estimatedCostUsd =
              NewScan.estimatedCostUsd
              + Min(scan'.totalDishes, CONFIG.AUTO_IMAGE_LIMIT)
                * ProviderCost(pipe.imageProvider)]_vars

\* a run with the nano_banana provider has ended with one auto-queued dish
\* whose worker has not started
C31_Witness ==
    /\ pipe.pc = "done" /\ pipe.imageProvider = "nano_banana"
    /\ scan.exists /\ scan.status = "generating"
    /\ scan.totalDishes = 2 /\ scan.imagesRequested = 1
    /\ scan.actualCostUsd = VISION_PARSE
    /\ scan.estimatedCostUsd = VISION_PARSE + IMAGE_NANO_BANANA
    /\ \E j \in BagToSet(jobs) : j.pc = "scheduled"

\* the worker execution j writes its successful generation's progress
BillsGeneration(j) == j.ok /\ WorkerUpdateProgress(j)

\* C32: actualCostUsd grows by the vision cost when an extraction has
\* succeeded, by the provider's unit cost when a worker execution that
\* generated its image records it, each on top of the value stored at that
\* moment, and changes in no other step.
C32_ActualCostIsSumOfSuccesses ==
    [][(scan.exists /\ scan'.exists) =>
        \/ /\ PipelineUpdateTotals
           /\ scan'.actualCostUsd = scan.actualCostUsd + VISION_PARSE
        \/ \E j \in BagToSet(jobs) :
              /\ BillsGeneration(j)
              /\ scan'.actualCostUsd
                    = scan.actualCostUsd + ProviderCost(j.provider)
        \/ /\ ~PipelineUpdateTotals
           /\ \A j \in BagToSet(jobs) : ~BillsGeneration(j)
           /\ scan'.actualCostUsd = scan.actualCostUsd]_vars

\* two workers finished concurrently: both read imagesGenerated = 0, so
\* the count stands at 1, and both costs are in actualCostUsd
C32_Witness ==
    /\ scan.exists /\ jobs = EmptyBag
    /\ billed[1] = 1 /\ billed[2] = 1
    /\ scan.imagesGenerated = 1
    /\ scan.actualCostUsd = VISION_PARSE + 2 * IMAGE_OPENAI

\* C33: whenever the scan's status is completed, none of its dishes has
\* imageStatus queued.
C33_CompletedHasNoQueuedDish ==
    (scan.exists /\ scan.status = "completed") =>
        \A d \in ScanDishes : dishes[d].imageStatus # "queued"

\* C34: with scheduled functions run fairly, every dish that is queued
\* eventually is completed, failed or skipped (or deleted with its scan).
C34_QueuedEventuallyLeaves ==
    \A d \in DishIds :
        (DishExists(d) /\ dishes[d].imageStatus = "queued")
            ~> (\/ ~DishExists(d)
                \/ dishes[d].imageStatus \in {"completed", "failed", "skipped"})

\* C35: right after stopImageGeneration or forceCompleteScan,
\* imagesGenerated is the number of the scan's dishes that are completed,
\* and imagesRequested is as it was.
C35_StopForceRecount ==
    [][((stopImageGeneration \/ forceCompleteScan) /\ scan.exists) =>
        /\ scan'.imagesGenerated = CountStatus(dishes', "completed")
        /\ scan'.imagesRequested = scan.imagesRequested]_vars

\* forceCompleteScan has run after a failed and a successful worker were
\* both counted: of the two counted attempts only the completed dish is
\* left in imagesGenerated
C35_Witness ==
    /\ ret.op = "forceCompleteScan" /\ ret.result = "ok"
    /\ scan.exists /\ jobs = EmptyBag
    /\ scan.imagesGenerated = 1 /\ scan.imagesRequested = 2
    /\ CountStatus(dishes, "completed") = 1
    /\ CountStatus(dishes, "failed") = 1

\* the worker execution j ends in this step
WorkerEnds(j) == WorkerStep(j) /\ jobs' = Finish(j)

\* C36: when a worker ends after its scan was deleted, no scan or dish
\* document of the scan exists and no generated image blob of the worker's
\* dish is left in storage.
C36_NothingLeftAfterDelete ==
    [][\A j \in BagToSet(jobs) :
          (~scan.exists /\ WorkerEnds(j)) =>
              /\ ~scan'.exists
              /\ \A d \in DOMAIN dishes' : ~dishes'[d].exists
              /\ storage'[j.dishId] = 0]_vars

====
